---- MODULE Spec2Model ----
(***************************************************************************)
(* Model of the lowering driver ClassicTarget::build                       *)
(* (dc_compiler/src/lowerify/classic_target.rs).                           *)
(*                                                                         *)
(* build(filename, context, ns) creates a Code Object tagged "x86_64" and  *)
(* calls emit_function on every CFG of ns.cfgs, in Vec order, discarding   *)
(* whatever each call yields, then returns the Code Object.                *)
(*                                                                         *)
(* CodeObject::new, record_function and emit_function belong to            *)
(* code_object.rs and base_target.rs, which are not part of the visible    *)
(* sources; they are modelled from sections 4.1, 4.2 and 5 of the          *)
(* specification.  filename and context are passed through to              *)
(* CodeObject::new untouched and carry no behaviour of the driver, so they *)
(* are not state.                                                          *)
(*                                                                         *)
(* Two build invocations (Builds) are modelled so that repeated and        *)
(* parallel builds can be compared; every variable is indexed by build.    *)
(***************************************************************************)
EXTENDS Naturals, Sequences, FiniteSets

VARIABLES
    ns,         \* ns[p]: the Namespace borrowed by build p (ns: &'a Namespace)
    arch,       \* arch[p]: the architecture triple the caller of build p asks for
    pc,         \* pc[p]: "entry" | "loop" | "returned" | "aborted"
    cursor,     \* cursor[p]: position of the iterator of `for cfg in &ns.cfgs`
    structure,  \* structure[p]: the local `structure` of build p
    calls,      \* calls[p]: log of the emit_function calls made by build p
    result      \* result[p]: what build p handed to its caller

vars == <<ns, arch, pc, cursor, structure, calls, result>>

----------------------------------------------------------------------------
(* Bounds of the model *)

MaxCfgs == 3

MaxParCfgs == 2

Builds == {1, 2}

FunctionNames == {"main", "helper"}

BlockCounts == {1, 2}

Triples == {"x86_64", "unknown-arch"}

----------------------------------------------------------------------------
(* Data *)

\* A control-flow graph: a function identity, its basic blocks, and whether
\* instruction selection can lower every construct in it.
CFGs == [name : FunctionNames, blocks : BlockCounts, lowerable : BOOLEAN]

SeqsUpTo(S, n) == UNION {[1..k -> S] : k \in 0..n}

\* Namespace { cfgs: Vec<ControlFlowGraph> }: any sequence of CFGs.  Nothing in
\* build inspects identities, so two CFGs of one identity are a possible input.
Namespaces == {[cfgs |-> s] : s \in SeqsUpTo(CFGs, MaxCfgs)}

\* The namespaces of the parallel builds: any sequence of at most MaxParCfgs
\* single-block CFGs.
SmallNamespaces ==
    {[cfgs |-> s] : s \in SeqsUpTo({c \in CFGs : c.blocks = 1}, MaxParCfgs)}

SupportedTriples == {"x86_64"}

\* No Code Object (before construction, or construction failed).
NoCodeObject == [triple |-> "none", entries |-> <<>>]

\* CodeObject::new(context, filename, ns, triple): an empty object tagged with
\* the triple; fails only if the triple is unrecognized.
CodeObject_new(triple) ==
    IF triple \in SupportedTriples
    THEN [triple |-> triple, entries |-> <<>>]
    ELSE NoCodeObject

Identities(co) == {co.entries[k].identity : k \in 1..Len(co.entries)}

\* record_function(identity, machine_body): inserts the body; an identity that
\* is already recorded is the fatal DuplicateEmission.
record_function(co, identity, body) ==
    IF identity \in Identities(co)
    THEN [co |-> co, outcome |-> "DuplicateEmission"]
    ELSE [co |-> [co EXCEPT !.entries =
                      Append(@, [identity |-> identity, body |-> body])],
          outcome |-> "ok"]

\* The lowered body of a CFG: one labelled machine block per basic block.
Lower(cfg) == [b \in 1..cfg.blocks |-> b]

\* A body cut off before its last block.
emit_function_Partial(co, cfg) ==
    IF cfg.lowerable
    THEN record_function(co, cfg.name, Lower(cfg))
    ELSE [co |-> [co EXCEPT !.entries =
                      Append(@, [identity |-> cfg.name,
                                 body |-> SubSeq(Lower(cfg), 1, cfg.blocks - 1)])],
          outcome |-> "LoweringError"]

\* emit_function(code_object, cfg): either records the whole body of the
\* function, or fails with nothing recorded for that identity.
emit_function(co, cfg) ==
    IF cfg.lowerable
    THEN record_function(co, cfg.name, Lower(cfg))
    ELSE [co |-> co, outcome |-> "LoweringError"]

----------------------------------------------------------------------------
(* The driver, classic_target.rs lines 10-24 *)

\* The triple of the caller instead of the literal.
BuildTriple_FromCaller(p) == arch[p]

\* line 17: the architecture literal handed to CodeObject::new.
BuildTriple(p) == "x86_64"

\* One Code Object shared by all builds.
StructureOf_Shared(p) == 1

\* line 17: `let mut structure` is a local of the invocation.
StructureOf(p) == p

RECURSIVE WithoutMain(_)
WithoutMain(cfgs) ==
    IF cfgs = <<>> THEN <<>>
    ELSE IF Head(cfgs).name = "main" THEN WithoutMain(Tail(cfgs))
    ELSE <<Head(cfgs)>> \o WithoutMain(Tail(cfgs))

RECURSIVE OnlyMain(_)
OnlyMain(cfgs) ==
    IF cfgs = <<>> THEN <<>>
    ELSE IF Head(cfgs).name = "main" THEN <<Head(cfgs)>> \o OnlyMain(Tail(cfgs))
    ELSE OnlyMain(Tail(cfgs))

\* "call main after build others": main deferred to the end.
CfgAt_MainLast(cfgs, k) == (WithoutMain(cfgs) \o OnlyMain(cfgs))[k]

\* The iterator never moves off the first CFG.
CfgAt_First(cfgs, k) == cfgs[1]

\* line 19: the k-th item of `for cfg in &ns.cfgs`.
CfgAt(cfgs, k) == cfgs[k]

\* The loop stops one CFG early.
LoopDone_OffByOne(cfgs, k) == k >= Len(cfgs)

\* line 19: the iterator is exhausted.
LoopDone(cfgs, k) == k > Len(cfgs)

\* A new Code Object for every iteration.
EmitInto_Fresh(co, triple) == CodeObject_new(triple)

\* line 20: `&mut structure`, the one object created at line 17.
EmitInto(co, triple) == co

\* line 20: the call is a statement; its value is dropped and the loop goes on.
\* Only a fatal failure inside the call (a panic) unwinds out of build.
AfterEmit(outcome) == IF outcome = "DuplicateEmission" THEN "aborted" ELSE "loop"

\* lines 15-17: the target and the Code Object are created.
Construct(p) ==
    /\ pc[p] = "entry"
    /\ LET co == CodeObject_new(BuildTriple(p)) IN
         IF co = NoCodeObject
         THEN /\ pc' = [pc EXCEPT ![p] = "aborted"]
              /\ result' = [result EXCEPT ![p] = "UnsupportedArchitecture"]
              /\ UNCHANGED <<structure, cursor>>
         ELSE /\ structure' = [structure EXCEPT ![StructureOf(p)] = co]
              /\ pc' = [pc EXCEPT ![p] = "loop"]
              /\ cursor' = [cursor EXCEPT ![p] = 1]
              /\ UNCHANGED result
    /\ UNCHANGED <<ns, arch, calls>>

\* lines 19-21: one iteration of the loop.
EmitStep(p) ==
    /\ pc[p] = "loop"
    /\ ~LoopDone(ns[p].cfgs, cursor[p])
    /\ LET cfg == CfgAt(ns[p].cfgs, cursor[p])
           r   == emit_function(
                      EmitInto(structure[StructureOf(p)], BuildTriple(p)), cfg)
       IN /\ structure' = [structure EXCEPT ![StructureOf(p)] = r.co]
          /\ calls' = [calls EXCEPT ![p] =
                           Append(@, [cfg |-> cfg, outcome |-> r.outcome])]
          /\ cursor' = [cursor EXCEPT ![p] = @ + 1]
          /\ pc' = [pc EXCEPT ![p] = AfterEmit(r.outcome)]
          /\ result' = [result EXCEPT ![p] =
                           IF AfterEmit(r.outcome) = "aborted" THEN r.outcome ELSE @]
    /\ UNCHANGED <<ns, arch>>

\* line 23: `structure` is returned.
Return(p) ==
    /\ pc[p] = "loop"
    /\ LoopDone(ns[p].cfgs, cursor[p])
    /\ pc' = [pc EXCEPT ![p] = "returned"]
    /\ result' = [result EXCEPT ![p] = "CodeObject"]
    /\ UNCHANGED <<ns, arch, cursor, structure, calls>>

BuildStep(p) == Construct(p) \/ EmitStep(p) \/ Return(p)

InitBuilds ==
    /\ pc = [p \in Builds |-> "entry"]
    /\ cursor = [p \in Builds |-> 0]
    /\ structure = [p \in Builds |-> NoCodeObject]
    /\ calls = [p \in Builds |-> <<>>]
    /\ result = [p \in Builds |-> "none"]

\* One compilation unit, built twice for the architecture its caller wants.
Init ==
    /\ \E n \in Namespaces : ns = [p \in Builds |-> n]
    /\ \E t \in Triples : arch = [p \in Builds |-> t]
    /\ InitBuilds

\* Independent compilation units, one build each.
InitPar ==
    /\ ns \in [Builds -> SmallNamespaces]
    /\ arch = [p \in Builds |-> "x86_64"]
    /\ InitBuilds

Next == \E p \in Builds : Construct(p) \/ EmitStep(p) \/ Return(p)

Spec == Init /\ [][Next]_vars

SpecPar == InitPar /\ [][Next]_vars

\* A build that has been called keeps running: nothing in it suspends or blocks.
FairSpec == Init /\ [][Next]_vars /\ \A p \in Builds : WF_vars(BuildStep(p))

----------------------------------------------------------------------------
(* Helpers for the properties *)

Finished(p) == pc[p] \in {"returned", "aborted"}

Entries(p) == structure[p].entries

CallCfgs(p) == [k \in 1..Len(calls[p]) |-> calls[p][k].cfg]

IsPrefix(s, t) == Len(s) <= Len(t) /\ SubSeq(t, 1, Len(s)) = s

\* The input the front-end is to supply: each CFG of the namespace has its
\* own function identity.
DistinctIdentities(cfgs) ==
    \A a, b \in 1..Len(cfgs) : a # b => cfgs[a].name # cfgs[b].name

\* The build unwound out of its last emit_function call, a DuplicateEmission.
UnwoundAtDuplicate(p) ==
    /\ pc[p] = "aborted"
    /\ calls[p] # <<>>
    /\ calls[p][Len(calls[p])].outcome = "DuplicateEmission"
    /\ result[p] = "DuplicateEmission"

\* The Code Object a build of cfgs holds after its first k emissions, when
\* nothing else touches it.
RECURSIVE Solo(_, _)
Solo(cfgs, k) ==
    IF k = 0 THEN CodeObject_new("x86_64")
    ELSE emit_function(Solo(cfgs, k - 1), cfgs[k]).co

----------------------------------------------------------------------------
(* C1 as stated: for any namespace the emit_function calls of a build    *)
(* are exactly c1, ..., cn: a build that has finished has called           *)
(* emit_function on every CFG of the namespace, none skipped.              *)
C1_ExactlyAllCfgs ==
    \A p \in Builds : Finished(p) => CallCfgs(p) = ns[p].cfgs

(* C1 amended: build creates the empty Code Object first and then calls    *)
(* emit_function on the CFGs of the namespace in namespace order: the log  *)
(* of calls is always c1, ..., ck for some k <= n (none skipped, repeated  *)
(* or reordered before ck, "main" at its own place), nothing is emitted    *)
(* before the Code Object exists, a build that returns has called exactly  *)
(* c1, ..., cn, and so has every finished build of a namespace with        *)
(* pairwise distinct identities; a build stops short only by unwinding out *)
(* of a call that raised DuplicateEmission.                                *)
C1_NamespaceOrder ==
    \A p \in Builds :
        /\ CallCfgs(p) = SubSeq(ns[p].cfgs, 1, Len(calls[p]))
        /\ Len(calls[p]) <= Len(ns[p].cfgs)
        /\ (calls[p] # <<>> => structure[p] # NoCodeObject)
        /\ (pc[p] = "loop" /\ calls[p] = <<>> => Entries(p) = <<>>)
        /\ (pc[p] = "returned" => CallCfgs(p) = ns[p].cfgs)
        /\ (pc[p] = "aborted" => UnwoundAtDuplicate(p))
        /\ (Finished(p) /\ DistinctIdentities(ns[p].cfgs) =>
                pc[p] = "returned" /\ CallCfgs(p) = ns[p].cfgs)

\* A build has returned after emitting "main" first and two CFGs after it.
C1_Witness ==
    \E p \in Builds :
        /\ pc[p] = "returned"
        /\ Len(ns[p].cfgs) = 3
        /\ ns[p].cfgs[1].name = "main"
        /\ Len(calls[p]) = 3
        /\ calls[p][1].cfg.name = "main"

(* C2: a finished build of a well-formed namespace either returned a Code  *)
(* Object with exactly one entry per CFG of the namespace, or failed with  *)
(* LoweringError / UnsupportedArchitecture and handed out no Code Object.  *)
C2_AllOrNothing ==
    \A p \in Builds :
        (DistinctIdentities(ns[p].cfgs) /\ Finished(p)) =>
            \/ /\ result[p] = "CodeObject"
               /\ Len(Entries(p)) = Len(ns[p].cfgs)
               /\ \A k \in 1..Len(ns[p].cfgs) :
                      Entries(p)[k].identity = ns[p].cfgs[k].name
            \/ /\ result[p] \in {"LoweringError", "UnsupportedArchitecture"}
               /\ pc[p] = "aborted"

(* C3: once emit_function has failed to lower a CFG, the build aborts with *)
(* a LoweringError: the failed call is the last one made, and no Code      *)
(* Object is returned.                                                     *)
C3_AbortsOnLoweringError ==
    \A p \in Builds :
        \A k \in 1..Len(calls[p]) :
            calls[p][k].outcome = "LoweringError" =>
                /\ k = Len(calls[p])
                /\ pc[p] = "aborted"
                /\ result[p] = "LoweringError"

C5_NeverReEmitted ==
    \A p \in Builds :
        /\ \A a, b \in 1..Len(Entries(p)) :
               a # b => Entries(p)[a].identity # Entries(p)[b].identity
        /\ \A a, b \in 1..Len(calls[p]) :
               a # b => calls[p][a].cfg.name # calls[p][b].cfg.name
        /\ \A k \in 1..Len(calls[p]) : calls[p][k].outcome # "DuplicateEmission"
        /\ result[p] # "DuplicateEmission"

(* C5 amended: the Code Object never holds two entries of one function     *)
(* identity; and when the CFGs of the namespace have pairwise distinct     *)
(* identities, no identity is emitted twice by one build and               *)
(* DuplicateEmission is never raised.  (The loop itself compares no        *)
(* identities: it emits a repeated identity again.)                        *)
C5_NoReEmission ==
    \A p \in Builds :
        /\ \A a, b \in 1..Len(Entries(p)) :
               a # b => Entries(p)[a].identity # Entries(p)[b].identity
        /\ DistinctIdentities(ns[p].cfgs) =>
               /\ \A a, b \in 1..Len(calls[p]) :
                      a # b => calls[p][a].cfg.name # calls[p][b].cfg.name
               /\ \A k \in 1..Len(calls[p]) :
                      calls[p][k].outcome # "DuplicateEmission"
               /\ result[p] # "DuplicateEmission"

\* A build has emitted and recorded two functions of different identities.
C5_Witness ==
    \E p \in Builds :
        /\ DistinctIdentities(ns[p].cfgs)
        /\ Len(calls[p]) = 2
        /\ Len(Entries(p)) = 2
        /\ pc[p] = "loop"

\* The entries of a build are exactly the whole bodies of the functions whose
\* emission succeeded, in emission order.
RECURSIVE Recorded(_)
Recorded(log) ==
    IF log = <<>> THEN <<>>
    ELSE LET rest == Recorded(SubSeq(log, 1, Len(log) - 1))
             last == log[Len(log)]
         IN IF last.outcome = "ok"
            THEN Append(rest, [identity |-> last.cfg.name, body |-> Lower(last.cfg)])
            ELSE rest

NoPartialRecord == \A p \in Builds : Entries(p) = Recorded(calls[p])

FailureRecordsNothing ==
    \A p \in Builds :
        (Len(calls'[p]) = Len(calls[p]) + 1
            /\ calls'[p][Len(calls'[p])].outcome # "ok") =>
                structure'[p] = structure[p]

(* C6: an emission is atomic with respect to the Code Object.  In every    *)
(* state each entry is the whole body of a function whose emission         *)
(* succeeded and a function whose emission failed has no entry, and a      *)
(* failing emission leaves the Code Object, with the entries of earlier    *)
(* emissions, as it was.                                                   *)
C6_AtomicEmission == []NoPartialRecord /\ [][FailureRecordsNothing]_vars

\* A failing emission has followed a successful one of a two-block function.
C6_Witness ==
    \E p \in Builds :
        /\ Len(calls[p]) = 2
        /\ calls[p][1].outcome = "ok"
        /\ calls[p][1].cfg.blocks = 2
        /\ calls[p][2].outcome = "LoweringError"
        /\ Len(Entries(p)) = 1

LifecycleStep ==
    \A p \in Builds :
        /\ ns'[p] = ns[p]
        /\ (pc[p] = "entry" => structure[p] = NoCodeObject)
        /\ (structure[p] = NoCodeObject /\ structure'[p] # NoCodeObject =>
                structure'[p].entries = <<>>)
        /\ (structure[p] # NoCodeObject =>
                /\ structure'[p] # NoCodeObject
                /\ structure'[p].triple = structure[p].triple
                /\ IsPrefix(structure[p].entries, structure'[p].entries)
                /\ Len(structure'[p].entries) <= Len(structure[p].entries) + 1)
        /\ (Len(calls'[p]) = Len(calls[p]) + 1
              /\ calls'[p][Len(calls'[p])].outcome = "ok" =>
                Len(structure'[p].entries) = Len(structure[p].entries) + 1)
        /\ (calls'[p] = calls[p] /\ structure[p] # NoCodeObject =>
                structure'[p] = structure[p])
        /\ (pc[p] = "returned" => structure'[p] = structure[p] /\ pc'[p] = "returned")

C8_ParallelBuilds ==
    \A p \in Builds :
        /\ (pc[p] # "entry" =>
                structure[p] = Solo(ns[p].cfgs, Len(calls[p])))
        /\ (pc[p] = "entry" => structure[p] = NoCodeObject)
        /\ (pc[p] = "returned" => Len(calls[p]) = Len(ns[p].cfgs))
        /\ CallCfgs(p) = SubSeq(ns[p].cfgs, 1, Len(calls[p]))

\* Both builds are in the middle of their loops, over different namespaces.
C8_Witness ==
    /\ ns[1] # ns[2]
    /\ \A p \in Builds :
           /\ pc[p] = "loop"
           /\ Len(ns[p].cfgs) = 2
           /\ Len(calls[p]) = 1
           /\ Len(Entries(p)) = 1

(* C9: two builds of the same Namespace that have both returned hold Code  *)
(* Objects with the same triple and the same entries (the same identities, *)
(* in the same order, with the same bodies).                               *)
C9_Idempotent ==
    \A p, q \in Builds :
        (ns[p] = ns[q] /\ pc[p] = "returned" /\ pc[q] = "returned") =>
            /\ structure[p].triple = structure[q].triple
            /\ Len(Entries(p)) = Len(Entries(q))
            /\ \A k \in 1..Len(Entries(p)) :
                   /\ Entries(p)[k].identity = Entries(q)[k].identity
                   /\ Entries(p)[k].body = Entries(q)[k].body

\* The same two-function namespace has been built twice.
C9_Witness ==
    /\ ns[1] = ns[2]
    /\ \A p \in Builds : pc[p] = "returned" /\ Len(Entries(p)) = 2

(* C10 as stated: a build of any namespace finishes by returning a Code   *)
(* Object tagged "x86_64" after exactly len(ns.cfgs) emit_function calls.  *)
C10_AlwaysReturns ==
    \A p \in Builds :
        Finished(p) =>
            /\ pc[p] = "returned"
            /\ Len(calls[p]) = Len(ns[p].cfgs)
            /\ structure[p].triple = "x86_64"

(* C10 amended: every build terminates after at most len(ns.cfgs)          *)
(* emit_function calls.  It returns a Code Object tagged "x86_64" after    *)
(* exactly len(ns.cfgs) calls (none, and an empty Code Object, for the     *)
(* empty namespace) unless it unwinds out of a call that raised            *)
(* DuplicateEmission, which does not happen when the identities of the     *)
(* namespace are pairwise distinct.                                        *)
C10_Terminates ==
    \A p \in Builds :
        <>( /\ Finished(p)
            /\ Len(calls[p]) <= Len(ns[p].cfgs)
            /\ (pc[p] = "aborted" =>
                    UnwoundAtDuplicate(p) /\ ~DistinctIdentities(ns[p].cfgs))
            /\ (pc[p] = "returned" =>
                    /\ result[p] = "CodeObject"
                    /\ Len(calls[p]) = Len(ns[p].cfgs)
                    /\ structure[p].triple = "x86_64"
                    /\ (ns[p].cfgs = <<>> => Entries(p) = <<>>)) )

\* A build of the empty namespace has returned without any emission.
C10_Witness ==
    \E p \in Builds :
        /\ pc[p] = "returned"
        /\ ns[p].cfgs = <<>>
        /\ calls[p] = <<>>
        /\ structure[p] = CodeObject_new("x86_64")

====
